---- MODULE Spec2Model ----
(***************************************************************************)
(* A model of disk_analyzer.py: the DiskAnalyzer scan                      *)
(* (get_detailed_analysis with get_directory_size, find_largest_subdirs),  *)
(* human_readable_size, and the interactive loop run_analysis / main.      *)
(*                                                                         *)
(* Paths, file names and extensions are sequences of one-character         *)
(* strings, so that os.path.join, os.path.splitext and str.lower are       *)
(* computed and not assumed.  The directory tree is fixed during one run.  *)
(***************************************************************************)
EXTENDS Integers, Sequences, FiniteSets, TLC

\* ------------------------------------------------------------------ bounds
MaxNodes == 4       \* nodes of the directory tree, the top directory included
MaxTopN == 2        \* largest top_n a direct caller passes
MaxLimbs == 7       \* base-1024 digits of a byte count given to human_readable_size

\* ------------------------------------------------------- program constants
DefaultTopN == 20   \* def get_detailed_analysis(self, path, top_n=20)
Base == 1024        \* size_bytes >= 1024, size_bytes /= 1024.0

size_names == <<"B", "KB", "MB", "GB", "TB", "PB">>

\* ------------------------------------------------------------ characters
Sep == "/"
Dot == "."
UpperAlpha == <<"A","B","C","D","E","F","G","H","I","J","K","L","M",
                "N","O","P","Q","R","S","T","U","V","W","X","Y","Z">>
LowerAlpha == <<"a","b","c","d","e","f","g","h","i","j","k","l","m",
                "n","o","p","q","r","s","t","u","v","w","x","y","z">>
DigitChars == <<"1","2","3","4","5","6","7","8","9">>

\* str.lower() on one character
LowerChar(c) ==
    IF \E i \in 1..26 : UpperAlpha[i] = c
    THEN LowerAlpha[CHOOSE i \in 1..26 : UpperAlpha[i] = c]
    ELSE c

\* str.lower()
lower(s) == [i \in 1..Len(s) |-> LowerChar(s[i])]

\* str.rfind(ch): the last index of ch, 0-based as in Python, -1 when absent
rfind(s, ch) ==
    IF \E i \in 1..Len(s) : s[i] = ch
    THEN (CHOOSE i \in 1..Len(s) : s[i] = ch /\ \A j \in (i+1)..Len(s) : s[j] # ch) - 1
    ELSE -1

\* s[a:b] with 0-based Python indices, 0 <= a <= b <= len(s)
Slice(s, a, b) == [i \in 1..(b - a) |-> s[a + i]]

\* os.path.splitext(p)[1]  (genericpath._splitext): the extension starts at
\* the last dot after the last separator, leading dots of the name excluded
splitext_ext(p) ==
    LET sepIndex == rfind(p, Sep)
        dotIndex == rfind(p, Dot)
    IN  IF dotIndex > sepIndex
           /\ \E k \in (sepIndex + 1)..(dotIndex - 1) : p[k + 1] # Dot
        THEN Slice(p, dotIndex, Len(p))
        ELSE <<>>

\* os.path.join(a, b) for a relative b: a + "/" + b unless a ends with "/"
join(a, b) ==
    IF a = <<>> \/ a[Len(a)] = Sep THEN a \o b ELSE a \o <<Sep>> \o b

\* the sentinel key of files without extension
no_extension == <<"n","o","_","e","x","t","e","n","s","i","o","n">>

\* ---------------------------------------------------------- the file system
\* A tree is a sequence of nodes; node 1 is the top directory, the parent of
\* node k > 1 is a directory with a smaller index, and the children of a
\* directory are listed in index order.  ok is "scandir succeeds" for a
\* directory and "stat succeeds" for a file.
TopName == <<"t">>
MissingPath == <<"m","i","s","s","i","n","g">>
DirName(k) == <<"d", Dot, DigitChars[k]>>

FileTemplates ==
    { [name |-> <<"A",Dot,"T","X","T">>,         size |-> 2, ok |-> TRUE],
      [name |-> <<"b",Dot,"t","x","t">>,         size |-> 1, ok |-> TRUE],
      [name |-> <<"R","E","A","D","M","E">>,     size |-> 2, ok |-> TRUE],
      [name |-> <<Dot,"r","c">>,                 size |-> 1, ok |-> TRUE],
      [name |-> <<"x",Dot,"l","o","g">>,         size |-> 4, ok |-> FALSE] }

NewNodesUnder(t, p) ==
    LET k == Len(t) + 1
    IN  { [parent |-> p, kind |-> "dir", ok |-> b, size |-> 0, name |-> DirName(k)]
            : b \in BOOLEAN }
        \cup
        { [parent |-> p, kind |-> "file", ok |-> f.ok, size |-> f.size, name |-> f.name]
            : f \in { g \in FileTemplates :
                        \A j \in 1..Len(t) : t[j].parent = p => t[j].name # g.name } }

NewNodes(t) ==
    LET k == Len(t) + 1
        lo == IF k = 2 THEN 1 ELSE t[k - 1].parent
    IN  UNION { NewNodesUnder(t, p) : p \in { q \in lo..(k - 1) : t[q].kind = "dir" } }

RECURSIVE Trees(_)
Trees(n) ==
    IF n = 1
    THEN { << [parent |-> 0, kind |-> "dir", ok |-> b, size |-> 0, name |-> TopName] >>
             : b \in BOOLEAN }
    ELSE UNION { { Append(t, nd) : nd \in NewNodes(t) } : t \in Trees(n - 1) }

RECURSIVE PathOf(_, _)
PathOf(t, k) == IF k = 1 THEN t[1].name ELSE join(PathOf(t, t[k].parent), t[k].name)

\* the node a path names, 0 when there is none
Lookup(t, p) ==
    IF \E k \in 1..Len(t) : PathOf(t, k) = p
    THEN CHOOSE k \in 1..Len(t) : PathOf(t, k) = p
    ELSE 0

RECURSIVE Enterable(_, _)
\* every directory above node k can be searched
Enterable(t, k) ==
    k = 1 \/ (t[t[k].parent].ok /\ Enterable(t, t[k].parent))

\* os.path.exists(p): stat(p) succeeds
exists(t, p) ==
    LET k == Lookup(t, p)
    IN  k # 0 /\ Enterable(t, k) /\ (t[k].kind = "file" => t[k].ok)

\* os.path.isdir(p)
isdir(t, p) ==
    LET k == Lookup(t, p)
    IN  k # 0 /\ Enterable(t, k) /\ t[k].kind = "dir"

\* os.path.getsize(fp) succeeds / its value
getsize_ok(t, fp) == exists(t, fp)
getsize(t, fp) == t[Lookup(t, fp)].size

ChildIds(t, k, kind) ==
    SelectSeq([i \in 1..Len(t) |-> i], LAMBDA j : t[j].parent = k /\ t[j].kind = kind)

RECURSIVE Flatten(_)
Flatten(ss) == IF ss = <<>> THEN <<>> ELSE Head(ss) \o Flatten(Tail(ss))

RECURSIVE walk_node(_, _, _)
\* os.walk below node k reached as path p, top-down, onerror=None: a
\* directory whose scandir fails yields nothing and raises nothing
walk_node(t, k, p) ==
    IF t[k].kind # "dir" \/ ~t[k].ok
    THEN <<>>
    ELSE LET ds == ChildIds(t, k, "dir")
             fs == ChildIds(t, k, "file")
         IN  << [root  |-> p,
                 dirs  |-> [i \in 1..Len(ds) |-> t[ds[i]].name],
                 files |-> [i \in 1..Len(fs) |-> t[fs[i]].name]] >>
             \o Flatten([i \in 1..Len(ds) |->
                           walk_node(t, ds[i], join(p, t[ds[i]].name))])

\* os.walk(top): the sequence of (root, dirs, files) it yields
os_walk(t, top) ==
    LET k == Lookup(t, top)
    IN  IF k = 0 \/ ~Enterable(t, k) THEN <<>> ELSE walk_node(t, k, top)

\* ------------------------------------------------- lists of (key, number)
RECURSIVE SumSizes(_)
\* sum(size for _, size in items)
SumSizes(items) == IF items = <<>> THEN 0 ELSE Head(items)[2] + SumSizes(Tail(items))

\* a dict in insertion order, as the sequence of its items; d[k] of a
\* defaultdict(int) and the assignment d[k] = v
DictHas(d, k) == \E i \in 1..Len(d) : d[i][1] = k
DictGet(d, k) == IF DictHas(d, k) THEN d[CHOOSE i \in 1..Len(d) : d[i][1] = k][2] ELSE 0
DictSet(d, k, v) ==
    IF DictHas(d, k)
    THEN [i \in 1..Len(d) |-> IF d[i][1] = k THEN <<k, v>> ELSE d[i]]
    ELSE Append(d, <<k, v>>)

\* InsertDesc placing e before the items equal to it
InsertDesc_Unstable(sorted, e) ==
    LET n == Cardinality({ i \in 1..Len(sorted) : sorted[i][2] > e[2] })
    IN  SubSeq(sorted, 1, n) \o <<e>> \o SubSeq(sorted, n + 1, Len(sorted))

\* the insertion step of a stable descending sort: e goes after every item
\* that is at least as large
InsertDesc(sorted, e) ==
    LET n == Cardinality({ i \in 1..Len(sorted) : sorted[i][2] >= e[2] })
    IN  SubSeq(sorted, 1, n) \o <<e>> \o SubSeq(sorted, n + 1, Len(sorted))

RECURSIVE sorted_desc(_)
\* sorted(items, key=lambda x: x[1], reverse=True); equal keys keep their order
sorted_desc(items) ==
    IF items = <<>> THEN <<>>
    ELSE InsertDesc(sorted_desc(SubSeq(items, 1, Len(items) - 1)), items[Len(items)])

\* items[:n] for n >= 0
Take(items, n) == SubSeq(items, 1, IF n < Len(items) THEN n ELSE Len(items))

\* ------------------------------------------------------- the scan's loops
RECURSIVE sized_files(_, _, _)
\* the inner loop over the files of one directory: (fp, size) of every file
\* whose getsize succeeds, a failing one is skipped
sized_files(t, root, files) ==
    IF files = <<>> THEN <<>>
    ELSE LET fp == join(root, Head(files))
         IN  (IF getsize_ok(t, fp) THEN << <<fp, getsize(t, fp)>> >> ELSE <<>>)
             \o sized_files(t, root, Tail(files))

RECURSIVE get_directory_size(_, _)
\* get_directory_size(path) as a whole, over the yields ys of os.walk(path)
get_directory_size(t, ys) ==
    IF ys = <<>> THEN 0
    ELSE SumSizes(sized_files(t, Head(ys).root, Head(ys).files))
         + get_directory_size(t, Tail(ys))

\* ext_key without lower()
ext_key_NoLower(file_path) ==
    LET ext == splitext_ext(file_path)
    IN  IF ext = <<>> THEN no_extension ELSE ext

\* the extension key of a recorded file
ext_key(file_path) ==
    LET ext == lower(splitext_ext(file_path))
    IN  IF ext = <<>> THEN no_extension ELSE ext

RECURSIVE tally(_, _, _)
\* the loop over file_sizes that fills file_types (weight = size) and
\* file_counts (weight = 1)
tally(files, d, bysize) ==
    IF files = <<>> THEN d
    ELSE LET ext == ext_key(Head(files)[1])
             w == IF bysize THEN Head(files)[2] ELSE 1
         IN  tally(Tail(files), DictSet(d, ext, DictGet(d, ext) + w), bysize)

RECURSIVE largest_subdirs(_, _, _)
\* find_largest_subdirs: (root, get_directory_size(root)) of every yielded
\* directory but the scanned one
largest_subdirs(t, ys, p) ==
    IF ys = <<>> THEN <<>>
    ELSE (IF Head(ys).root # p
          THEN << <<Head(ys).root, get_directory_size(t, os_walk(t, Head(ys).root))>> >>
          ELSE <<>>)
         \o largest_subdirs(t, Tail(ys), p)

\* ------------------------------------------------------------------ state
VARIABLES
    tree,          \* the directory tree on disk
    pc,            \* position in get_detailed_analysis
    path, top_n,   \* its arguments
    exc,           \* the exception it raised, "" for none
    acc,           \* total_size inside get_directory_size
    wi,            \* index of the next yield of the os.walk being iterated
    total_size, dir_sizes, file_sizes, sorted_dirs,
    file_types, file_counts, sorted_types,
    subdirs,       \* the list find_largest_subdirs prints
    result,        \* the returned dict, None before
    warnings,      \* paths named in "Permission denied" messages
    cli,           \* position in main / run_analysis, "none" when not running
    stdin_eof,     \* standard input has reached its end
    last_in,       \* what the last input() call delivered
    last_msg,      \* the last line run_analysis or main printed
    interrupted,   \* an interrupt signal has been delivered
    uncaught,      \* the exception that left main, "" for none
    h_pc,          \* position in human_readable_size
    h_n,           \* its argument, a non-negative integer
    size_bytes,    \* its local size_bytes
    idx,           \* its local i
    h_out          \* the string it returned

Unset == -1
None == [tag |-> "None"]

scanLocals == <<acc, wi, total_size, dir_sizes, file_sizes, sorted_dirs,
                file_types, file_counts, sorted_types, subdirs>>
scanVars == <<pc, path, top_n, exc, scanLocals, result, warnings>>
cliVars == <<cli, stdin_eof, last_in, last_msg, interrupted, uncaught>>
hrsVars == <<h_pc, h_n, size_bytes, idx, h_out>>
others == <<cliVars, hrsVars>>
vars == <<tree, scanVars, others>>

NoInput == [kind |-> "none", text |-> <<>>]

FreshLocals ==
    /\ acc = 0 /\ wi = 1 /\ total_size = Unset
    /\ dir_sizes = <<>> /\ file_sizes = <<>> /\ sorted_dirs = <<>>
    /\ file_types = <<>> /\ file_counts = <<>> /\ sorted_types = <<>>
    /\ subdirs = <<>>

AllTrees == UNION { Trees(n) : n \in 1..MaxNodes }

\* the paths a caller may pass: every path of the tree and one that is absent
Paths(t) == { PathOf(t, k) : k \in 1..Len(t) } \cup { MissingPath }

\* nothing has been called yet
Quiet ==
    /\ pc = "idle" /\ path = <<>> /\ top_n = 0 /\ exc = ""
    /\ FreshLocals
    /\ result = None /\ warnings = {}
    /\ stdin_eof = FALSE /\ last_in = NoInput
    /\ last_msg = "" /\ interrupted = FALSE /\ uncaught = ""
    /\ h_pc = "idle" /\ h_n = <<>> /\ size_bytes = [m |-> <<>>, e |-> 0]
    /\ idx = 0 /\ h_out = ""

Init ==
    /\ tree \in AllTrees
    /\ cli = "none"
    /\ Quiet

\* Enter without the existence check
Enter_NoCheck(p, n) ==
    /\ path' = p /\ top_n' = n
    /\ result' = None
    /\ acc' = 0 /\ wi' = 1 /\ total_size' = Unset
    /\ dir_sizes' = <<>> /\ file_sizes' = <<>> /\ sorted_dirs' = <<>>
    /\ file_types' = <<>> /\ file_counts' = <<>> /\ sorted_types' = <<>>
    /\ subdirs' = <<>>
    /\ pc' = "size" /\ exc' = ""
    /\ UNCHANGED <<tree, warnings>>

\* ------------------------------------------------- get_detailed_analysis
\* lines 44-54: the existence check, then the call of get_directory_size
Enter(p, n) ==
    /\ path' = p /\ top_n' = n
    /\ result' = None
    /\ acc' = 0 /\ wi' = 1 /\ total_size' = Unset
    /\ dir_sizes' = <<>> /\ file_sizes' = <<>> /\ sorted_dirs' = <<>>
    /\ file_types' = <<>> /\ file_counts' = <<>> /\ sorted_types' = <<>>
    /\ subdirs' = <<>>
    /\ IF ~exists(tree, p)
       THEN pc' = "raised" /\ exc' = "FileNotFoundError"
       ELSE pc' = "size" /\ exc' = ""
    /\ UNCHANGED <<tree, warnings>>

Call ==
    /\ pc = "idle"
    /\ \E p \in Paths(tree), n \in 0..MaxTopN : Enter(p, n)
    /\ UNCHANGED others

\* SizeStep adding up the files of the top directory only
SizeStep_TopOnly ==
    /\ pc = "size"
    /\ wi <= Len(os_walk(tree, path))
    /\ LET y == os_walk(tree, path)[wi]
       IN  acc' = acc + (IF wi = 1 THEN SumSizes(sized_files(tree, y.root, y.files)) ELSE 0)
    /\ wi' = wi + 1
    /\ UNCHANGED <<tree, pc, path, top_n, exc, total_size, dir_sizes, file_sizes,
                   sorted_dirs, file_types, file_counts, sorted_types, subdirs,
                   result, warnings, others>>

\* lines 31-38: one iteration of get_directory_size's loop over os.walk
SizeStep ==
    /\ pc = "size"
    /\ wi <= Len(os_walk(tree, path))
    /\ LET y == os_walk(tree, path)[wi]
       IN  acc' = acc + SumSizes(sized_files(tree, y.root, y.files))
    /\ wi' = wi + 1
    /\ UNCHANGED <<tree, pc, path, top_n, exc, total_size, dir_sizes, file_sizes,
                   sorted_dirs, file_types, file_counts, sorted_types, subdirs,
                   result, warnings, others>>

\* lines 42, 54-61: get_directory_size returns, the tallies are created
SizeReturn ==
    /\ pc = "size"
    /\ wi > Len(os_walk(tree, path))
    /\ total_size' = acc
    /\ dir_sizes' = <<>> /\ file_sizes' = <<>>
    /\ wi' = 1
    /\ pc' = "walk"
    /\ UNCHANGED <<tree, path, top_n, exc, acc, sorted_dirs, file_types,
                   file_counts, sorted_types, subdirs, result, warnings, others>>

\* WalkStep recording the scanned directory itself as well
WalkStep_WithRoot ==
    /\ pc = "walk"
    /\ wi <= Len(os_walk(tree, path))
    /\ LET y == os_walk(tree, path)[wi]
           sized == sized_files(tree, y.root, y.files)
           dir_total == SumSizes(sized)
       IN  /\ file_sizes' = file_sizes \o sized
           /\ dir_sizes' = DictSet(dir_sizes, y.root, dir_total)
    /\ wi' = wi + 1
    /\ UNCHANGED <<tree, pc, path, top_n, exc, acc, total_size, sorted_dirs,
                   file_types, file_counts, sorted_types, subdirs, result, warnings,
                   others>>

\* lines 64-78: one iteration of the loop over os.walk(path)
WalkStep ==
    /\ pc = "walk"
    /\ wi <= Len(os_walk(tree, path))
    /\ LET y == os_walk(tree, path)[wi]
           sized == sized_files(tree, y.root, y.files)
           dir_total == SumSizes(sized)
       IN  /\ file_sizes' = file_sizes \o sized
           /\ dir_sizes' = IF y.root # path
                           THEN DictSet(dir_sizes, y.root, dir_total)
                           ELSE dir_sizes
    /\ wi' = wi + 1
    /\ UNCHANGED <<tree, pc, path, top_n, exc, acc, total_size, sorted_dirs,
                   file_types, file_counts, sorted_types, subdirs, result, warnings, others>>

\* lines 83-95: both rankings; file_sizes is sorted in place
Rank ==
    /\ pc = "walk"
    /\ wi > Len(os_walk(tree, path))
    /\ sorted_dirs' = sorted_desc(dir_sizes)
    /\ file_sizes' = sorted_desc(file_sizes)
    /\ pc' = "types"
    /\ UNCHANGED <<tree, path, top_n, exc, acc, wi, total_size, dir_sizes,
                   file_types, file_counts, sorted_types, subdirs, result, warnings, others>>

\* lines 97-117: the file type distribution
Types ==
    /\ pc = "types"
    /\ file_types' = tally(file_sizes, <<>>, TRUE)
    /\ file_counts' = tally(file_sizes, <<>>, FALSE)
    /\ sorted_types' = sorted_desc(tally(file_sizes, <<>>, TRUE))
    /\ pc' = "summary"
    /\ UNCHANGED <<tree, path, top_n, exc, acc, wi, total_size, dir_sizes,
                   file_sizes, sorted_dirs, subdirs, result, warnings, others>>

\* lines 119-136: the summary, find_largest_subdirs and the returned dict
Return ==
    /\ pc = "summary"
    /\ subdirs' = Take(sorted_desc(largest_subdirs(tree, os_walk(tree, path), path)), top_n)
    /\ result' = [tag           |-> "dict",
                  total_size    |-> total_size,
                  file_count    |-> Len(file_sizes),
                  dir_count     |-> Len(sorted_dirs),
                  largest_dirs  |-> Take(sorted_dirs, top_n),
                  largest_files |-> Take(file_sizes, top_n),
                  file_types    |-> sorted_types]
    /\ pc' = "returned"
    /\ UNCHANGED <<tree, path, top_n, exc, acc, wi, total_size, dir_sizes,
                   file_sizes, sorted_dirs, file_types, file_counts,
                   sorted_types, warnings, others>>

Next ==
    \/ Call
    \/ SizeStep
    \/ SizeReturn
    \/ WalkStep
    \/ Rank
    \/ Types
    \/ Return

Spec == Init /\ [][Next]_vars

\* ------------------------------------------------------ run_analysis, main
Space == " "

RECURSIVE lstrip(_)
lstrip(s) == IF s # <<>> /\ Head(s) = Space THEN lstrip(Tail(s)) ELSE s

RECURSIVE rstrip(_)
rstrip(s) ==
    IF s # <<>> /\ s[Len(s)] = Space THEN rstrip(SubSeq(s, 1, Len(s) - 1)) ELSE s

\* str.strip()
strip(s) == rstrip(lstrip(s))

QuitWords == { <<"q","u","i","t">>, <<"e","x","i","t">>, <<"q">> }
YesWords == { <<"y">>, <<"y","e","s">> }

\* the lines typed at the path prompt and at the continue prompt
PathLines(t) ==
    { <<"q">>, <<"Q","U","I","T">>, <<Space,"e","x","i","t",Space>>, <<>>, <<Space>> }
    \cup Paths(t)
ContinueLines ==
    { <<"y">>, <<Space,"Y","E","S">>, <<"n">>, <<>>, <<"q","u","i","t">> }

ByeMsg == "Goodbye!"
InterruptedMsg == "Analysis interrupted by user."

ScanFrameGone ==
    /\ acc' = 0 /\ wi' = 1 /\ total_size' = Unset
    /\ dir_sizes' = <<>> /\ file_sizes' = <<>> /\ sorted_dirs' = <<>>
    /\ file_types' = <<>> /\ file_counts' = <<>> /\ sorted_types' = <<>>
    /\ subdirs' = <<>>

\* lines 243-248: the handlers of the first try block, for an exception e
\* raised inside it
Handle(e) ==
    IF e = "KeyboardInterrupt"
    THEN /\ last_msg' = InterruptedMsg          \* line 244, break
         /\ cli' = "exited"
         /\ uncaught' = ""
    ELSE /\ last_msg' = "Error during analysis" \* line 247, continue
         /\ cli' = "prompt_path"
         /\ uncaught' = ""

\* lines 260-266: an exception e leaves run_analysis
LeaveMain(e) ==
    IF e = "KeyboardInterrupt"
    THEN cli' = "crashed" /\ uncaught' = e /\ UNCHANGED last_msg
    ELSE cli' = "exited" /\ uncaught' = "" /\ last_msg' = "Error starting application"

\* line 214: get_system_info prints its report and returns
SysInfo ==
    /\ cli = "sysinfo"
    /\ cli' = "prompt_path"
    /\ last_msg' = "System Information"
    /\ UNCHANGED <<tree, scanVars, stdin_eof, last_in, interrupted, uncaught, hrsVars>>

\* line 214: the interrupt arrives while get_system_info runs, outside
\* every try block of run_analysis
SysInfoInterrupt ==
    /\ cli = "sysinfo"
    /\ interrupted' = TRUE
    /\ LeaveMain("KeyboardInterrupt")
    /\ UNCHANGED <<tree, scanVars, stdin_eof, last_in, hrsVars>>

\* lines 218-239: a line is read at the path prompt
PromptPath ==
    /\ cli = "prompt_path"
    /\ ~stdin_eof
    /\ \E line \in PathLines(tree) :
         LET p == strip(line)
         IN  /\ last_in' = [kind |-> "line", text |-> line]
             /\ IF lower(p) \in QuitWords
                THEN /\ last_msg' = ByeMsg /\ cli' = "exited"
                     /\ UNCHANGED <<tree, scanVars>>
                ELSE IF p = <<>>
                THEN /\ last_msg' = "Please enter a valid path." /\ cli' = "prompt_path"
                     /\ UNCHANGED <<tree, scanVars>>
                ELSE IF ~exists(tree, p)
                THEN /\ last_msg' = "Error: Path does not exist" /\ cli' = "prompt_path"
                     /\ UNCHANGED <<tree, scanVars>>
                ELSE IF ~isdir(tree, p)
                THEN /\ last_msg' = "Error: Path is not a directory" /\ cli' = "prompt_path"
                     /\ UNCHANGED <<tree, scanVars>>
                ELSE /\ Enter(p, DefaultTopN)
                     /\ cli' = "scanning"
                     /\ last_msg' = "Detailed Disk Space Analysis"
    /\ UNCHANGED <<stdin_eof, interrupted, uncaught, hrsVars>>

\* line 219: input() raises EOFError, which line 246 catches
PromptPathEOF ==
    /\ cli = "prompt_path"
    /\ stdin_eof' = TRUE
    /\ last_in' = [kind |-> "eof", text |-> <<>>]
    /\ Handle("EOFError")
    /\ UNCHANGED <<tree, scanVars, interrupted, hrsVars>>

\* line 219: the interrupt arrives while input() waits
PromptPathInterrupt ==
    /\ cli = "prompt_path"
    /\ interrupted' = TRUE
    /\ Handle("KeyboardInterrupt")
    /\ UNCHANGED <<tree, scanVars, stdin_eof, last_in, hrsVars>>

\* line 239: the interrupt arrives while get_detailed_analysis runs; the
\* scan is abandoned without a result
ScanInterrupt ==
    /\ cli = "scanning"
    /\ pc \in {"size", "walk", "types", "summary"}
    /\ interrupted' = TRUE
    /\ pc' = "idle" /\ exc' = "KeyboardInterrupt"
    /\ ScanFrameGone
    /\ Handle("KeyboardInterrupt")
    /\ UNCHANGED <<tree, path, top_n, result, warnings, stdin_eof, last_in, hrsVars>>

\* lines 239-248: get_detailed_analysis returns or raises
ScanEnds ==
    /\ cli = "scanning"
    /\ pc \in {"returned", "raised"}
    /\ IF pc = "raised"
       THEN Handle(exc)
       ELSE /\ last_msg' = "Analysis complete!"
            /\ cli' = "prompt_continue"
            /\ UNCHANGED uncaught
    /\ pc' = "idle"
    /\ ScanFrameGone
    /\ UNCHANGED <<tree, path, top_n, exc, result, warnings,
                   stdin_eof, last_in, interrupted, hrsVars>>

\* lines 251-255: a line is read at the continue prompt
PromptContinue ==
    /\ cli = "prompt_continue"
    /\ ~stdin_eof
    /\ \E line \in ContinueLines :
         LET choice == lower(strip(line))
         IN  /\ last_in' = [kind |-> "line", text |-> line]
             /\ IF choice \notin YesWords
                THEN last_msg' = ByeMsg /\ cli' = "exited"
                ELSE cli' = "prompt_path" /\ UNCHANGED last_msg
    /\ UNCHANGED <<tree, scanVars, stdin_eof, interrupted, uncaught, hrsVars>>

\* line 252: input() raises EOFError; line 256 does not catch it, main does
PromptContinueEOF ==
    /\ cli = "prompt_continue"
    /\ stdin_eof' = TRUE
    /\ last_in' = [kind |-> "eof", text |-> <<>>]
    /\ LeaveMain("EOFError")
    /\ UNCHANGED <<tree, scanVars, interrupted, hrsVars>>

\* lines 256-258: the interrupt arrives while input() waits
PromptContinueInterrupt ==
    /\ cli = "prompt_continue"
    /\ interrupted' = TRUE
    /\ last_msg' = ByeMsg /\ cli' = "exited"
    /\ UNCHANGED <<tree, scanVars, stdin_eof, last_in, uncaught, hrsVars>>

CliMaxNodes == 3    \* nodes of the tree the interactive loop runs on

InitCLI ==
    /\ tree \in UNION { Trees(n) : n \in 1..CliMaxNodes }
    /\ cli = "sysinfo"
    /\ Quiet

NextCLI ==
    \/ SysInfo
    \/ SysInfoInterrupt
    \/ PromptPath
    \/ PromptPathEOF
    \/ PromptPathInterrupt
    \/ SizeStep
    \/ SizeReturn
    \/ WalkStep
    \/ Rank
    \/ Types
    \/ Return
    \/ ScanInterrupt
    \/ ScanEnds
    \/ PromptContinue
    \/ PromptContinueEOF
    \/ PromptContinueInterrupt

SpecCLI == InitCLI /\ [][NextCLI]_vars

\* ----------------------------------------------------- human_readable_size
\* A byte count is the sequence of its base-1024 digits, least significant
\* first, without leading zeros (0 is the empty sequence).  size_bytes is
\* [m, e], the number m / 1024^e: the int argument before the first
\* division (e = 0), a float after it.
LimbDigits == {0, 1, 512, 1023}
Limbs(maxlen) ==
    { <<>> } \cup UNION { { l \in [1..n -> LimbDigits] : l[n] # 0 } : n \in 1..maxlen }

MantissaBits == 53  \* the precision of a Python float

\* the binary digits of a byte count, least significant first
Bits(l) == [k \in 1..(10 * Len(l)) |-> (l[((k - 1) \div 10) + 1] \div (2 ^ ((k - 1) % 10))) % 2]

BitLen(l) ==
    IF l = <<>> THEN 0
    ELSE LET b == Bits(l)
         IN  CHOOSE k \in 1..Len(b) : b[k] = 1 /\ \A j \in (k + 1)..Len(b) : b[j] = 0

FromBits(b) ==
    [j \in 1..((Len(b) + 9) \div 10) |->
        LET Bit(k) == IF 10 * (j - 1) + k <= Len(b) THEN b[10 * (j - 1) + k] ELSE 0
            Sum[k \in 0..10] == IF k = 0 THEN 0 ELSE Sum[k - 1] + Bit(k) * (2 ^ (k - 1))
        IN  Sum[10]]

\* b + 1 on binary digits
BitInc(b) ==
    IF \A k \in 1..Len(b) : b[k] = 1
    THEN [k \in 1..(Len(b) + 1) |-> IF k = Len(b) + 1 THEN 1 ELSE 0]
    ELSE LET z == CHOOSE k \in 1..Len(b) : b[k] = 0 /\ \A j \in 1..(k - 1) : b[j] = 1
         IN  [k \in 1..Len(b) |-> IF k < z THEN 0 ELSE IF k = z THEN 1 ELSE b[k]]

\* float(n): n rounded to 53 significant bits, ties to even
to_float(l) ==
    LET t == BitLen(l)
        d == t - MantissaBits
        b == Bits(l)
        kept == [k \in 1..MantissaBits |-> b[d + k]]
        up == b[d] = 1 /\ (kept[1] = 1 \/ \E k \in 1..(d - 1) : b[k] = 1)
    IN  IF d <= 0 THEN l
        ELSE FromBits([k \in 1..d |-> 0] \o (IF up THEN BitInc(kept) ELSE kept))

\* size_bytes > 1024
ge_1024_Strict(v) ==
    /\ Len(v.m) - v.e >= 2
    /\ ~(/\ SubSeq(v.m, v.e + 1, Len(v.m)) = <<0, 1>>
         /\ \A k \in 1..v.e : v.m[k] = 0)

\* size_bytes >= 1024
ge_1024(v) == Len(v.m) - v.e >= 2

\* size_bytes /= 1024.0: an int is converted to float first; dividing a
\* float by a power of two is exact
div_1024(v) == [m |-> IF v.e = 0 THEN to_float(v.m) ELSE v.m, e |-> v.e + 1]

\* the integer part and the fraction digits of m / 1024^e
IntPart(v) == IF Len(v.m) > v.e THEN SubSeq(v.m, v.e + 1, Len(v.m)) ELSE <<>>
FracPart(v) == [k \in 1..v.e |-> IF k <= Len(v.m) THEN v.m[k] ELSE 0]

\* l * 10 + c on digits of a fraction: <<digits, carry out>>
RECURSIVE MulTen(_, _)
MulTen(l, c) ==
    IF l = <<>> THEN << <<>>, c >>
    ELSE LET x == Head(l) * 10 + c
             r == MulTen(Tail(l), x \div Base)
         IN  << <<x % Base>> \o r[1], r[2] >>

\* l \div 10 and l % 10 on a byte count: <<quotient, remainder>>
RECURSIVE DivTen(_)
DivTen(l) ==
    IF l = <<>> THEN << <<>>, 0 >>
    ELSE LET hi == DivTen(Tail(l))
             x == hi[2] * Base + Head(l)
             q == IF hi[1] = <<>> /\ x \div 10 = 0 THEN <<>> ELSE <<x \div 10>> \o hi[1]
         IN  << q, x % 10 >>

\* l + 1 on a byte count
RECURSIVE Inc(_)
Inc(l) ==
    IF l = <<>> THEN <<1>>
    ELSE IF Head(l) + 1 < Base THEN <<Head(l) + 1>> \o Tail(l)
    ELSE <<0>> \o Inc(Tail(l))

RECURSIVE Decimal(_)
\* the decimal digits of a byte count
Decimal(l) ==
    IF l = <<>> THEN "0"
    ELSE LET qr == DivTen(l)
         IN  IF qr[1] = <<>> THEN ToString(qr[2])
             ELSE Decimal(qr[1]) \o ToString(qr[2])

\* f"{size_bytes:.1f}": one decimal, correctly rounded, ties to even
format_1f(v) ==
    LET f == FracPart(v)
        t == MulTen(f, 0)
        tenth == t[2]
        rest == t[1]
        top == IF rest = <<>> THEN 0 ELSE rest[Len(rest)]
        low == \E k \in 1..(Len(rest) - 1) : rest[k] # 0
        half == Base \div 2
        up == top > half \/ (top = half /\ (low \/ tenth % 2 = 1))
        carry == up /\ tenth = 9
        ip == IF v.e = 0 THEN to_float(IntPart(v)) ELSE IntPart(v)
    IN  Decimal(IF carry THEN Inc(ip) ELSE ip) \o "."
        \o ToString(IF carry THEN 0 ELSE IF up THEN tenth + 1 ELSE tenth)

\* lines 158-164
HrsCall ==
    /\ h_pc = "idle"
    /\ \E n \in Limbs(MaxLimbs) :
         /\ h_n' = n
         /\ IF n = <<>>
            THEN h_pc' = "done" /\ h_out' = "0 B" /\ UNCHANGED <<size_bytes, idx>>
            ELSE h_pc' = "loop" /\ size_bytes' = [m |-> n, e |-> 0] /\ idx' = 0
                 /\ h_out' = ""
    /\ UNCHANGED <<tree, scanVars, cliVars>>

\* lines 165-167: one iteration of the while loop
HrsDivide ==
    /\ h_pc = "loop"
    /\ ge_1024(size_bytes) /\ idx < Len(size_names) - 1
    /\ size_bytes' = div_1024(size_bytes)
    /\ idx' = idx + 1
    /\ UNCHANGED <<tree, scanVars, cliVars, h_pc, h_n, h_out>>

\* line 169
HrsReturn ==
    /\ h_pc = "loop"
    /\ ~(ge_1024(size_bytes) /\ idx < Len(size_names) - 1)
    /\ h_out' = format_1f(size_bytes) \o " " \o size_names[idx + 1]
    /\ h_pc' = "done"
    /\ UNCHANGED <<tree, scanVars, cliVars, h_n, size_bytes, idx>>

InitHRS ==
    /\ tree \in { t \in Trees(1) : t[1].ok }
    /\ cli = "none"
    /\ Quiet

NextHRS ==
    \/ HrsCall
    \/ HrsDivide
    \/ HrsReturn

SpecHRS == InitHRS /\ [][NextHRS]_vars

\* =================================================================== claims
\* What a scan of the tree should see, stated on the tree itself.
RECURSIVE Reachable(_, _, _)
\* node k is r, or lies below r with every directory from r down to k's
\* parent listable
Reachable(t, r, k) ==
    \/ k = r
    \/ /\ k > r
       /\ t[k].parent >= r
       /\ t[t[k].parent].ok
       /\ Reachable(t, r, t[k].parent)

RECURSIVE Below(_, _, _)
\* node k lies strictly below node a
Below(t, a, k) == k > a /\ (t[k].parent = a \/ Below(t, a, t[k].parent))

RECURSIVE SetSum(_, _)
SetSum(S, f) ==
    IF S = {} THEN 0
    ELSE LET x == CHOOSE y \in S : TRUE IN f[x] + SetSum(S \ {x}, f)

ScanRoot == Lookup(tree, path)
NodeSize == [k \in 1..Len(tree) |-> tree[k].size]
\* the directories a scan of path visits, and the files it can size
VisitedDirs ==
    { k \in 1..Len(tree) : tree[k].kind = "dir" /\ tree[k].ok /\ Reachable(tree, ScanRoot, k) }
SizedFiles ==
    { k \in 1..Len(tree) : tree[k].kind = "file" /\ tree[k].ok /\ Reachable(tree, ScanRoot, k) }
DirectFiles(d) == { k \in 1..Len(tree) : tree[k].kind = "file" /\ tree[k].ok /\ tree[k].parent = d }
Keys(d) == { d[i][1] : i \in 1..Len(d) }
Items(d) == { d[i] : i \in 1..Len(d) }
Finished == pc \in {"returned", "raised"}
ScansDir == path # <<>> /\ exists(tree, path) /\ isdir(tree, path)

\* C1: when a scan returns, the sizes of the recorded file entries, the
\* reported total size and the per-extension size totals all have the same
\* sum, whatever files or subtrees were skipped.
C1_Consistent ==
    pc = "returned" =>
        /\ SumSizes(file_sizes) = result.total_size
        /\ SumSizes(result.file_types) = result.total_size
        /\ result.file_count = Len(file_sizes)

\* a scan returned a non-zero total although a file below the scanned
\* directory was skipped: it could not be sized, or it lies in a directory
\* that could not be entered
C1_Witness ==
    /\ pc = "returned" /\ result.total_size > 0
    /\ \E k \in 1..Len(tree) :
         /\ tree[k].kind = "file" /\ k \notin SizedFiles
         /\ Below(tree, ScanRoot, k)

\* C2: a scan of a tree with a subdirectory that cannot be entered and holds
\* files completes without raising, leaves those files out of the total,
\* records no file or directory entry for the subtree, still scans the
\* sibling directories, and names the skipped subdirectory in a warning.
C2_SkippedReported ==
    \A d \in 1..Len(tree) :
        ( /\ Finished /\ ScansDir
          /\ tree[d].kind = "dir" /\ ~tree[d].ok
          /\ d # ScanRoot /\ Reachable(tree, ScanRoot, d)
          /\ \E f \in 1..Len(tree) : tree[f].kind = "file" /\ tree[f].parent = d )
        =>
        ( /\ pc = "returned"
          /\ result.total_size = SetSum(SizedFiles, NodeSize)
          /\ \A f \in 1..Len(tree) :
               Below(tree, d, f) => PathOf(tree, f) \notin Keys(file_sizes) \cup Keys(dir_sizes)
          /\ PathOf(tree, d) \notin Keys(dir_sizes)
          /\ \A e \in VisitedDirs :
               (e # ScanRoot /\ tree[e].parent = tree[d].parent) => PathOf(tree, e) \in Keys(dir_sizes)
          /\ PathOf(tree, d) \in warnings )

\* C3: a scan of a path that exists and is not a directory ends by raising
\* NotADirectoryError, without a result.
C3_FileRaises ==
    (Finished /\ exists(tree, path) /\ ~isdir(tree, path)) =>
        (pc = "raised" /\ exc = "NotADirectoryError" /\ result = None)

\* C4: a scan of a path that does not exist raises FileNotFoundError before
\* any traversal step: no total, no file entry, no directory entry, no
\* returned value.
C4_MissingRaises ==
    (pc # "idle" /\ ~exists(tree, path)) =>
        /\ pc = "raised" /\ exc = "FileNotFoundError"
        /\ wi = 1 /\ acc = 0 /\ total_size = Unset
        /\ file_sizes = <<>> /\ dir_sizes = <<>>
        /\ result = None

\* a scan of the absent path has raised
C4_Witness == pc = "raised" /\ path = MissingPath /\ exc = "FileNotFoundError"

\* C5: after the walk, the per-directory map has exactly one entry for every
\* visited directory strictly below the scan root, none for the root, and
\* each value is the sum of the sizes of the sized files directly inside.
C5_DirectSizes ==
    (pc \in {"types", "summary", "returned"}) =>
        /\ \A a, b \in 1..Len(dir_sizes) : dir_sizes[a][1] = dir_sizes[b][1] => a = b
        /\ Keys(dir_sizes) = { PathOf(tree, k) : k \in VisitedDirs \ {ScanRoot} }
        /\ path \notin Keys(dir_sizes)
        /\ \A a \in 1..Len(dir_sizes) :
             dir_sizes[a][2] = SetSum(DirectFiles(Lookup(tree, dir_sizes[a][1])), NodeSize)
        /\ (pc = "returned" => result.dir_count = Cardinality(VisitedDirs \ {ScanRoot}))

\* a scan returned with the root holding a file and a recorded directory
\* whose own files are smaller than what lies below it
C5_Witness ==
    /\ pc = "returned"
    /\ DirectFiles(ScanRoot) # {} \/ Len(dir_sizes) >= 2
    /\ \E a \in 1..Len(dir_sizes) :
         LET d == Lookup(tree, dir_sizes[a][1])
         IN  dir_sizes[a][2] < SetSum({ k \in SizedFiles : Below(tree, d, k) }, NodeSize)

\* the position of an entry in the per-directory map, i.e. traversal order
Pos(e) == CHOOSE a \in 1..Len(dir_sizes) : dir_sizes[a] = e
Before(x, y) == x[2] > y[2] \/ (x[2] = y[2] /\ Pos(x) < Pos(y))

\* C6: the returned directory ranking is in non-increasing order of size,
\* equal sizes in traversal order, holds the first top_n of that order, and
\* for top_n at least the number of recorded directories holds every
\* recorded directory exactly once.
C6_Ranking ==
    pc = "returned" =>
        LET L == result.largest_dirs
        IN  /\ Len(L) = (IF top_n < Len(dir_sizes) THEN top_n ELSE Len(dir_sizes))
            /\ \A a \in 1..Len(L) : L[a] \in Items(dir_sizes)
            /\ \A a, b \in 1..Len(L) : a < b => Before(L[a], L[b])
            /\ \A e \in Items(dir_sizes) \ Items(L) : \A a \in 1..Len(L) : Before(L[a], e)
            /\ top_n >= Len(dir_sizes) =>
                 (Items(L) = Items(dir_sizes) /\ Len(L) = Len(dir_sizes))

\* a scan returned all of at least two directories, two of them equal in
\* size
C6_Witness ==
    /\ pc = "returned" /\ top_n >= Len(dir_sizes)
    /\ \E a, b \in 1..Len(dir_sizes) : a # b /\ dir_sizes[a][2] = dir_sizes[b][2]

IsQuit(inp) == inp.kind = "line" /\ lower(strip(inp.text)) \in QuitWords

\* C7: once a quit command or the end of input has been read, at either
\* prompt, the loop has exited normally and is at no prompt again.
C7_QuitOrEofExits ==
    (IsQuit(last_in) \/ last_in.kind = "eof") => (cli = "exited" /\ uncaught = "")

\* C8: once an interrupt has been delivered, wherever the program was, the
\* loop has ended with a goodbye message and nothing has left main.
C8_InterruptCaught ==
    interrupted =>
        (cli = "exited" /\ uncaught = "" /\ last_msg \in {ByeMsg, InterruptedMsg})

\* n < 1024^k for a byte count n
LessPow(n, k) == Len(n) <= k
UnitIndex(n) ==
    IF \E k \in 0..5 : LessPow(n, k + 1)
    THEN CHOOSE k \in 0..5 : LessPow(n, k + 1) /\ \A j \in 0..(k - 1) : ~LessPow(n, j + 1)
    ELSE 5

\* C9: human_readable_size divides at most 5 times, ends with the unit index
\* the smallest i with n < 1024^(i+1), or 5 (PB) from 1024^6 on, and formats
\* 0, 1023, 1024, 1536, 1048576 as "0 B", "1023.0 B", "1.0 KB", "1.5 KB",
\* "1.0 MB".
C9_Units ==
    /\ idx <= 5
    /\ size_bytes.e = idx
    /\ h_pc = "done" =>
         /\ h_n # <<>> => idx = UnitIndex(h_n)
         /\ h_n = <<>> => h_out = "0 B"
         /\ h_n = <<1023>> => h_out = "1023.0 B"
         /\ h_n = <<0, 1>> => h_out = "1.0 KB"
         /\ h_n = <<512, 1>> => h_out = "1.5 KB"
         /\ h_n = <<0, 0, 1>> => h_out = "1.0 MB"

\* a count of at least 1024^6 bytes was formatted after 5 divisions
C9_Witness == h_pc = "done" /\ Len(h_n) >= 7 /\ idx = 5 /\ size_bytes.e = 5

\* the extension of a file name, by name
DotTxt == <<Dot, "t", "x", "t">>
Basename(fp) == Slice(fp, rfind(fp, Sep) + 1, Len(fp))
BucketOf(fp) ==
    LET b == Basename(fp)
    IN  IF b \in { <<"A",Dot,"T","X","T">>, <<"b",Dot,"t","x","t">> } THEN DotTxt
        ELSE IF b = <<"x",Dot,"l","o","g">> THEN <<Dot,"l","o","g">>
        ELSE no_extension
FilesIn(key) == SelectSeq(file_sizes, LAMBDA e : BucketOf(e[1]) = key)

\* C10: every recorded file adds its size and a count of one to exactly one
\* bucket, keyed by its lower-cased extension or "no_extension"; A.TXT and
\* b.txt share ".txt"; the counts sum to the number of recorded files.
C10_Buckets ==
    (pc \in {"summary", "returned"}) =>
        /\ \A a, b \in 1..Len(file_types) : file_types[a][1] = file_types[b][1] => a = b
        /\ Keys(file_types) = { BucketOf(file_sizes[a][1]) : a \in 1..Len(file_sizes) }
        /\ Keys(file_counts) = Keys(file_types)
        /\ \A key \in Keys(file_types) :
             /\ DictGet(file_types, key) = SumSizes(FilesIn(key))
             /\ DictGet(file_counts, key) = Len(FilesIn(key))
        /\ SumSizes(file_counts) = Len(file_sizes)
        /\ Items(sorted_types) = Items(file_types)

\* a scan recorded A.TXT, b.txt and a file without extension: ".txt" counts
\* two files
C10_Witness ==
    /\ pc = "returned"
    /\ DictGet(file_counts, DotTxt) = 2
    /\ DictGet(file_counts, no_extension) >= 1
    /\ \E a \in 1..Len(file_sizes) : Basename(file_sizes[a][1]) = <<"A",Dot,"T","X","T">>

====
